---------------------------- MODULE Spec2Model ----------------------------
(***************************************************************************)
(* A model of the receipt parser (expense_tracker.py) and of the chat      *)
(* assistant (QAbot.py).                                                   *)
(*                                                                         *)
(* Texts are sequences of characters.  The six letters of the anchor are   *)
(* kept together as one unit, "TOTAL:" (upper case) or "total:" (lower     *)
(* case).  A model output is reduced to its brace skeleton: "{", "}", "w"  *)
(* (a stretch of any other text) and "A" (the marker <|assistant|>).       *)
(* Numbers are exact decimals [m, e] standing for m / 10^e, normalised.    *)
(*                                                                         *)
(* process_receipt has three inputs: the receipt text, the generation and  *)
(* the object the generation holds.  Spec ranges over the receipt texts,   *)
(* SpecOutputs over the generations, SpecItems over the objects, each with *)
(* a sample of the other two.  SpecHost is a session of main, click after  *)
(* click; SpecChat is a session of the chat assistant.                     *)
(***************************************************************************)
EXTENDS Integers, Sequences, FiniteSets, TLC

VARIABLES
    receipt_text,   \* process_receipt's argument (the text area's content)
    text_output,    \* the decoded model output, after the <|assistant|> split
    json_string,    \* match.group(0); <<>> before a match is found
    loaded,         \* history: what json.loads returned, before any repair
    json_output,    \* the parsed dict, repaired in place
    result,         \* what process_receipt returned, or the exception raised
    st_error,       \* the st.error shown by process_receipt / main
    st_info,        \* the st.info shown by the repair
    st_warning,     \* the st.warning shown by the repair
    pc,             \* where the call stands
    parsed_data,    \* st.session_state['parsed_data']
    replaced,       \* history: what the last assignment to it overwrote
    chat_context,   \* QAbot: the context text area
    messages,       \* QAbot: st.session_state.messages
    system_instruction, \* QAbot: the system prompt built from the context
    full_llm_input, \* QAbot: what was handed to llm_pipeline
    chat_pc         \* QAbot: where the script run stands

vars == <<receipt_text, text_output, json_string, loaded, json_output, result,
          st_error, st_info, st_warning, pc, parsed_data, replaced,
          chat_context, messages, system_instruction, full_llm_input, chat_pc>>

receiptVars == <<receipt_text, text_output, json_string, loaded, json_output,
                 result, st_error, st_info, st_warning, pc, parsed_data, replaced>>

chatVars == <<chat_context, messages, system_instruction, full_llm_input, chat_pc>>

(***************************************************************************)
(* Bounds.                                                                 *)
(***************************************************************************)
\* a receipt text is at most this many words
MaxWords == 3
\* a model output is at most this many skeleton tokens
MaxOut == 4
\* an 'items' list holds at most this many elements
MaxItems == 2
\* a chat session holds at most this many messages
MaxMessages == 4

(***************************************************************************)
(* Sequences.                                                              *)
(***************************************************************************)
SeqsUpTo(S, n) == UNION {[1..k -> S] : k \in 0..n}

RECURSIVE Flatten(_)
Flatten(ws) == IF ws = <<>> THEN <<>> ELSE Head(ws) \o Flatten(Tail(ws))

Positions(s, c) == {i \in 1..Len(s) : s[i] = c}

Min(S) == CHOOSE x \in S : \A y \in S : x <= y

Max(S) == CHOOSE x \in S : \A y \in S : x >= y

(***************************************************************************)
(* Exact decimals.                                                         *)
(***************************************************************************)
RECURSIVE Pow10(_)
Pow10(k) == IF k = 0 THEN 1 ELSE 10 * Pow10(k - 1)

RECURSIVE Norm(_)
Norm(n) == IF n.e > 0 /\ n.m % 10 = 0
           THEN Norm([m |-> n.m \div 10, e |-> n.e - 1])
           ELSE n

Dec(m, e) == Norm([m |-> m, e |-> e])

Zero == Dec(0, 0)

NumAdd(a, b) ==
    LET e == IF a.e >= b.e THEN a.e ELSE b.e
    IN  Dec(a.m * Pow10(e - a.e) + b.m * Pow10(e - b.e), e)

NumMul(a, b) == Dec(a.m * b.m, a.e + b.e)

\* round(x, 2): to the nearest hundredth.  The amounts of the model never lie
\* exactly half way between two hundredths, where the binary value decides.
Round2(n) ==
    IF n.e <= 2 THEN n
    ELSE LET scale == Pow10(n.e - 2)
             q     == n.m \div scale
             r     == n.m % scale
         IN  Dec(IF 2 * r > scale \/ (2 * r = scale /\ q % 2 = 1) THEN q + 1 ELSE q, 2)

(***************************************************************************)
(* JSON values, as json.loads builds them.                                 *)
(***************************************************************************)
Absent == [kind |-> "absent"]

Null == [kind |-> "null"]

Bool(b) == [kind |-> "bool", b |-> b]

Number(n) == [kind |-> "num", n |-> n]

Str(s) == [kind |-> "str", s |-> s]

List(elems) == [kind |-> "list", elems |-> elems]

Obj(fields) == [kind |-> "obj", fields |-> fields]

\* a dict of the receipt schema; a key that is not in the dict holds Absent
Dict(raw, total, items) == [raw_text |-> raw, total |-> total, items |-> items]

EmptyDict == Dict(Absent, Absent, Absent)

Item(quantity, price) == Obj([quantity |-> quantity, price |-> price])

\* d.get(k, default)
DictGet(d, k, default) == IF d[k] = Absent THEN default ELSE d[k]

\* d[k] = v
DictSet(d, k, v) == [d EXCEPT ![k] = v]

\* isinstance(v, (int, float)): bool is a subclass of int
IsInstanceIntFloat(v) == v.kind \in {"num", "bool"}

\* isinstance(v, list)
IsInstanceList(v) == v.kind = "list"

(***************************************************************************)
(* float(...)                                                              *)
(***************************************************************************)
Digits == {"0", "1", "2", "3", "4", "5", "6", "7", "8", "9"}

IsDigit(c) == c \in Digits

DigitVal(c) ==
    CASE c = "0" -> 0 [] c = "1" -> 1 [] c = "2" -> 2 [] c = "3" -> 3
      [] c = "4" -> 4 [] c = "5" -> 5 [] c = "6" -> 6 [] c = "7" -> 7
      [] c = "8" -> 8 [] c = "9" -> 9

RECURSIVE DigitsToNat(_, _)
DigitsToNat(ds, acc) ==
    IF ds = <<>> THEN acc ELSE DigitsToNat(Tail(ds), 10 * acc + DigitVal(Head(ds)))

\* the strings of digits and dots that float() accepts
IsFloatLiteral(cs) ==
    /\ \A i \in 1..Len(cs) : IsDigit(cs[i]) \/ cs[i] = "."
    /\ \E i \in 1..Len(cs) : IsDigit(cs[i])
    /\ Cardinality(Positions(cs, ".")) <= 1

FloatValue(cs) ==
    LET dots == Positions(cs, ".")
        e    == IF dots = {} THEN 0 ELSE Len(cs) - Max(dots)
    IN  Dec(DigitsToNat(SelectSeq(cs, IsDigit), 0), e)

Ok(n) == [ok |-> TRUE, n |-> n]

Raise(exc) == [ok |-> FALSE, exc |-> exc]

\* float(str)
FloatOfStr(cs) == IF IsFloatLiteral(cs) THEN Ok(FloatValue(cs)) ELSE Raise("ValueError")

\* float(v) of a JSON value
PyFloat(v) ==
    CASE v.kind = "num"  -> Ok(v.n)
      [] v.kind = "bool" -> Ok(IF v.b THEN Dec(1, 0) ELSE Zero)
      [] v.kind = "str"  -> FloatOfStr(v.s)
      [] OTHER           -> Raise("TypeError")

(***************************************************************************)
(* re.search(r'\{.*\}', text_output, re.DOTALL)                            *)
(***************************************************************************)
NoMatch == [found |-> FALSE, group |-> <<>>]

Match(group) == [found |-> TRUE, group |-> group]

\* the variant '.*?\}': the match stops at the first "}" after the brace
LazyEnd(t, i) == Min({j \in Positions(t, "}") : j > i})

\* '.*\}' is greedy: from the opening brace at i, the match runs to the last "}"
GreedyEnd(t, i) == Max({j \in Positions(t, "}") : j > i})

\* the leftmost "{" from which the pattern can match at all
ReSearchBraces(t) ==
    LET starts == {i \in Positions(t, "{") : \E j \in Positions(t, "}") : j > i}
    IN  IF starts = {} THEN NoMatch
        ELSE LET i == Min(starts) IN Match(SubSeq(t, i, GreedyEnd(t, i)))

\* text_output.split("<|assistant|>")[-1] when the marker is in the text
LastAssistantPart(t) ==
    LET marks == Positions(t, "A")
    IN  IF marks = {} THEN t ELSE SubSeq(t, Max(marks) + 1, Len(t))

(***************************************************************************)
(* json.loads(json_string), on the brace skeleton.  A skeleton is one      *)
(* object when its first brace closes at its last character.  "{}" is the  *)
(* empty object.  A longer object must open with a member ("w" after the   *)
(* brace); whether its text is valid JSON, and which object it holds, is   *)
(* not in the skeleton: any of the payloads, or a decoding error.          *)
(***************************************************************************)
RECURSIVE ClosesAtEnd(_, _, _)
ClosesAtEnd(s, i, d) ==
    IF i > Len(s) THEN FALSE
    ELSE LET d2 == d + (IF s[i] = "{" THEN 1 ELSE IF s[i] = "}" THEN -1 ELSE 0)
         IN  IF d2 = 0 THEN i = Len(s) ELSE ClosesAtEnd(s, i + 1, d2)

IsOneObject(s) == Len(s) >= 2 /\ s[1] = "{" /\ ClosesAtEnd(s, 1, 0)

JSONDecodeError == [ok |-> FALSE]

Loaded(d) == [ok |-> TRUE, value |-> d]

JsonLoads(s, payloads) ==
    IF ~IsOneObject(s) THEN {JSONDecodeError}
    ELSE IF Len(s) = 2 THEN {Loaded(EmptyDict)}
    ELSE IF s[2] = "w" THEN {JSONDecodeError} \cup {Loaded(d) : d \in payloads}
    ELSE {JSONDecodeError}

(***************************************************************************)
(* re.search(r'TOTAL:\s*([\d\.]+)', receipt_text, re.IGNORECASE)           *)
(***************************************************************************)
\* the variant without re.IGNORECASE
IsAnchorUpperOnly(c) == c = "TOTAL:"

\* re.IGNORECASE: the anchor in either case
IsAnchor(c) == c \in {"TOTAL:", "total:"}

IsSpace(c) == c = " "

\* \s* : the first position from i on that holds no whitespace
RECURSIVE SkipSpaces(_, _)
SkipSpaces(t, i) == IF i <= Len(t) /\ IsSpace(t[i]) THEN SkipSpaces(t, i + 1) ELSE i

\* [\d\.]+ : the last position of the run of digits and dots starting at i
RECURSIVE RunEnd(_, _)
RunEnd(t, i) ==
    IF i <= Len(t) /\ (IsDigit(t[i]) \/ t[i] = ".") THEN RunEnd(t, i + 1) ELSE i - 1

MatchTotalAt(t, i) ==
    LET s == SkipSpaces(t, i + 1)
        e == RunEnd(t, s)
    IN  IF IsAnchor(t[i]) /\ e >= s THEN Match(SubSeq(t, s, e)) ELSE NoMatch

\* the leftmost match
RECURSIVE SearchTotalFrom(_, _)
SearchTotalFrom(t, i) ==
    IF i > Len(t) THEN NoMatch
    ELSE IF MatchTotalAt(t, i).found THEN MatchTotalAt(t, i)
    ELSE SearchTotalFrom(t, i + 1)

ReSearchTotal(t) == SearchTotalFrom(t, 1)

(***************************************************************************)
(* The repair of 'total' in process_receipt.                               *)
(***************************************************************************)
Repaired(d, info) == [ok |-> TRUE, json |-> d, info |-> info]

\* Fallback 1: the number after "TOTAL:" in the receipt text
FallbackText(d, total_match) ==
    LET f == FloatOfStr(total_match.group)
    IN  IF f.ok THEN Repaired(DictSet(d, "total", Number(f.n)), "corrected")
        ELSE Repaired(DictSet(d, "total", Number(Zero)), "")

\* the keys of a dict, as iterating it yields them (strings)
RECURSIVE KeySeq(_, _)
KeySeq(fields, keys) ==
    IF keys = {} THEN <<>>
    ELSE LET k == CHOOSE x \in keys : TRUE
         IN  <<Str(<<k>>)>> \o KeySeq(fields, keys \ {k})

KeysOf(fields) == KeySeq(fields, {k \in DOMAIN fields : fields[k] # Absent})

\* for item in <value>: the elements a JSON value yields, or TypeError
IterOf(v) ==
    CASE v.kind = "list" -> [ok |-> TRUE, elems |-> v.elems]
      [] v.kind = "str"  -> [ok |-> TRUE, elems |-> [i \in 1..Len(v.s) |-> Str(<<v.s[i]>>)]]
      [] v.kind = "obj"  -> [ok |-> TRUE, elems |-> KeysOf(v.fields)]
      [] OTHER           -> Raise("TypeError")

\* one turn of the loop: the item's quantity * price, or nothing for an item
\* that raises ValueError or TypeError; an item without .get raises AttributeError
ItemAmount(item) ==
    IF item.kind # "obj" THEN Raise("AttributeError")
    ELSE LET quantity == PyFloat(DictGet(item.fields, "quantity", Number(Zero)))
             price    == PyFloat(DictGet(item.fields, "price", Number(Zero)))
         IN  IF quantity.ok /\ price.ok THEN Ok(NumMul(quantity.n, price.n)) ELSE Ok(Zero)

RECURSIVE SumItems(_, _)
SumItems(elems, calculated_total) ==
    IF elems = <<>> THEN Ok(calculated_total)
    ELSE LET a == ItemAmount(Head(elems))
         IN  IF a.ok THEN SumItems(Tail(elems), NumAdd(calculated_total, a.n)) ELSE a

\* the variant of Fallback 2 that keeps only the items it could add up
RECURSIVE Coercible(_)
Coercible(elems) ==
    IF elems = <<>> THEN <<>>
    ELSE (IF Head(elems).kind = "obj"
             /\ PyFloat(DictGet(Head(elems).fields, "quantity", Number(Zero))).ok
             /\ PyFloat(DictGet(Head(elems).fields, "price", Number(Zero))).ok
          THEN <<Head(elems)>> ELSE <<>>) \o Coercible(Tail(elems))

FallbackItemsDropping(d) ==
    LET it == IterOf(DictGet(d, "items", List(<<>>)))
    IN  IF ~it.ok THEN it
        ELSE LET s == SumItems(it.elems, Zero)
             IN  IF s.ok
                 THEN Repaired(DictSet(DictSet(d, "items", List(Coercible(it.elems))),
                                       "total", Number(Round2(s.n))), "calculated")
                 ELSE s

\* Fallback 2: the total calculated from the items
FallbackItems(d) ==
    LET it == IterOf(DictGet(d, "items", List(<<>>)))
    IN  IF ~it.ok THEN it
        ELSE LET s == SumItems(it.elems, Zero)
             IN  IF s.ok THEN Repaired(DictSet(d, "total", Number(Round2(s.n))), "calculated")
                 ELSE s

\* the variant that repairs every total, numeric or not
AlwaysMalformed(d) == TRUE

\* the test that sends the dict to the fallbacks
TotalIsMalformed(d) == ~IsInstanceIntFloat(DictGet(d, "total", Null))

RepairTotal(d, text) ==
    IF ~TotalIsMalformed(d) THEN Repaired(d, "")
    ELSE LET total_match == ReSearchTotal(text)
         IN  IF total_match.found THEN FallbackText(d, total_match)
             ELSE FallbackItems(d)

\* Final cleanup: a list under 'total' is removed
FinalCleanup(d) ==
    IF d.total # Absent /\ IsInstanceList(d.total) THEN DictSet(d, "total", Absent) ELSE d

(***************************************************************************)
(* The inputs.                                                             *)
(***************************************************************************)
\* the words a receipt text is made of: the anchor in upper and in lower
\* case, a blank, a word of letters, two numbers and a full stop
Words == {<<"TOTAL:">>, <<"total:">>, <<" ">>, <<"w">>, <<"7">>, <<"2", ".", "5">>, <<".">>}

ReceiptTexts == {Flatten(ws) : ws \in SeqsUpTo(Words, MaxWords)}

\* the decoded generations: skeleton tokens, with the marker <|assistant|>
RawOutputs == SeqsUpTo({"{", "}", "w", "A"}, MaxOut)

RawText == Str(<<"r">>)

Milk == Item(Number(Dec(1, 0)), Number(Dec(450, 2)))

Bread == Item(Number(Dec(2, 0)), Number(Dec(300, 2)))

\* the elements of an 'items' list: not an object; quantity and price numbers;
\* a quantity in a string, a price with thousandths; a quantity that is no
\* number; no quantity and a null price
ItemValues ==
    { Null, Milk, Bread,
      Item(Str(<<"2">>), Number(Dec(3004, 3))),
      Item(Str(<<"x">>), Number(Dec(525, 2))),
      Item(Absent, Null) }

ItemsShapes ==
    {Absent, Null, Str(<<"x">>), Obj(EmptyDict)}
        \cup {List(l) : l \in SeqsUpTo(ItemValues, MaxItems)}

TotalShapes ==
    { Absent, Null, Bool(TRUE), Number(Dec(5, 0)), Str(<<"x">>),
      List(<<Number(Dec(5, 0))>>), Obj(EmptyDict) }

\* the objects a model output may hold
Payloads == {Dict(RawText, t, i) : t \in TotalShapes, i \in ItemsShapes}

\* a sample of the objects, for the runs that range over the texts
BasicPayloads ==
    {Dict(RawText, t, i) : t \in TotalShapes, i \in {Absent, List(<<Milk, Bread>>)}}

\* a sample of the receipt texts, for the runs that range over something else
BasicReceipts ==
    { <<"7">>, <<"TOTAL:", " ", "7">>, <<"total:", "2", ".", "5", ".">> }

\* a sample of the generations: prose only, the empty object, an object, an
\* object with a stray brace after it
BasicOutputs ==
    { <<"w">>, <<"{", "}">>, <<"{", "w", "}">>, <<"w", "{", "w", "}", "}">> }

(***************************************************************************)
(* process_receipt                                                         *)
(***************************************************************************)
Pending == [kind |-> "pending"]

ReturnNone == [kind |-> "none"]

Returned(d) == [kind |-> "obj", value |-> d]

Raised(exc) == [kind |-> "raised", exc |-> exc]

Unset == [kind |-> "unset"]

NotLoaded == [kind |-> "notloaded"]

ErrNoJson == "Model output did not contain a valid JSON object (no {} found)."

ErrDecode == "JSON Decoding Error"

ErrEmpty == "Please enter some receipt text to process."

Init ==
    /\ receipt_text = <<>>
    /\ text_output = <<>>
    /\ json_string = <<>>
    /\ loaded = NotLoaded
    /\ json_output = NotLoaded
    /\ result = Pending
    /\ st_error = ""
    /\ st_info = ""
    /\ st_warning = FALSE
    /\ pc = "idle"
    /\ parsed_data = Unset
    /\ replaced = Unset
    /\ chat_context = <<>>
    /\ messages = <<>>
    /\ system_instruction = <<>>
    /\ full_llm_input = <<>>
    /\ chat_pc = "idle"

\* process_receipt(tokenizer, model, receipt_text) is entered
Call(r) ==
    /\ pc = "idle"
    /\ receipt_text' = r
    /\ text_output' = <<>>
    /\ json_string' = <<>>
    /\ loaded' = NotLoaded
    /\ json_output' = NotLoaded
    /\ result' = Pending
    /\ st_error' = ""
    /\ st_info' = ""
    /\ st_warning' = FALSE
    /\ pc' = "generate"
    /\ UNCHANGED <<parsed_data, replaced>>
    /\ UNCHANGED chatVars

\* model.generate and tokenizer.decode, then the split at <|assistant|>
Generate(raw) ==
    /\ pc = "generate"
    /\ text_output' = LastAssistantPart(raw)
    /\ pc' = "extract"
    /\ UNCHANGED <<receipt_text, json_string, loaded, json_output, result,
                   st_error, st_info, st_warning, parsed_data, replaced>>
    /\ UNCHANGED chatVars

\* the brace search and json.loads, with the two failures that return None
ExtractAndLoad(payloads) ==
    /\ pc = "extract"
    /\ LET match == ReSearchBraces(text_output)
       IN  IF ~match.found
           THEN /\ st_error' = ErrNoJson
                /\ result' = ReturnNone
                /\ pc' = "returned"
                /\ UNCHANGED <<json_string, loaded, json_output>>
           ELSE /\ json_string' = match.group
                /\ \E o \in JsonLoads(match.group, payloads) :
                       IF o.ok
                       THEN /\ loaded' = o.value
                            /\ json_output' = o.value
                            /\ pc' = "repair"
                            /\ UNCHANGED <<st_error, result>>
                       ELSE /\ st_error' = ErrDecode
                            /\ result' = ReturnNone
                            /\ pc' = "returned"
                            /\ UNCHANGED <<loaded, json_output>>
    /\ UNCHANGED <<receipt_text, text_output, st_info, st_warning, parsed_data, replaced>>
    /\ UNCHANGED chatVars

\* the repair of 'total', the final cleanup and the return
Repair ==
    /\ pc = "repair"
    /\ LET r == RepairTotal(json_output, receipt_text)
       IN  IF r.ok
           THEN /\ json_output' = FinalCleanup(r.json)
                /\ result' = Returned(FinalCleanup(r.json))
                /\ st_info' = r.info
                /\ pc' = "returned"
           ELSE /\ result' = Raised(r.exc)
                /\ pc' = "raised"
                /\ UNCHANGED <<json_output, st_info>>
    /\ st_warning' = TotalIsMalformed(json_output)
    /\ UNCHANGED <<receipt_text, text_output, json_string, loaded, st_error, parsed_data, replaced>>
    /\ UNCHANGED chatVars

\* one call of process_receipt, over the receipt texts
Next ==
    \/ \E r \in ReceiptTexts : Call(r)
    \/ \E raw \in BasicOutputs : Generate(raw)
    \/ ExtractAndLoad(BasicPayloads)
    \/ Repair

Spec == Init /\ [][Next]_vars

\* one call of process_receipt, over the generations
NextOutputs ==
    \/ \E r \in BasicReceipts : Call(r)
    \/ \E raw \in RawOutputs : Generate(raw)
    \/ ExtractAndLoad(BasicPayloads)
    \/ Repair

SpecOutputs == Init /\ [][NextOutputs]_vars

\* one call of process_receipt, over the objects a generation may hold
NextItems ==
    \/ \E r \in BasicReceipts : Call(r)
    \/ \E raw \in BasicOutputs : Generate(raw)
    \/ ExtractAndLoad(Payloads)
    \/ Repair

SpecItems == Init /\ [][NextItems]_vars

(***************************************************************************)
(* main: the "Extract Data" button and the right-hand column.              *)
(***************************************************************************)
\* receipt_text.strip() is empty
IsBlank(r) == \A i \in 1..Len(r) : IsSpace(r[i])

\* the button is clicked with r in the text area
ExtractData(r) ==
    IF ~IsBlank(r) THEN Call(r)
    ELSE /\ pc = "idle"
         /\ receipt_text' = r
         /\ st_error' = ErrEmpty
         /\ st_info' = ""
         /\ st_warning' = FALSE
         /\ UNCHANGED <<text_output, json_string, loaded, json_output, result, pc,
                        parsed_data, replaced>>
         /\ UNCHANGED chatVars

\* the variant that assigns only a result that is not None
StoreKeepingOnFailure ==
    /\ pc = "returned"
    /\ parsed_data' = (IF result = ReturnNone THEN parsed_data ELSE result)
    /\ replaced' = parsed_data
    /\ pc' = "idle"
    /\ text_output' = <<>>
    /\ json_string' = <<>>
    /\ loaded' = NotLoaded
    /\ json_output' = NotLoaded
    /\ result' = Pending
    /\ UNCHANGED <<receipt_text, st_error, st_info, st_warning>>
    /\ UNCHANGED chatVars

\* st.session_state['parsed_data'] = process_receipt(...)
Store ==
    /\ pc = "returned"
    /\ parsed_data' = result
    /\ replaced' = parsed_data
    /\ pc' = "idle"
    /\ text_output' = <<>>
    /\ json_string' = <<>>
    /\ loaded' = NotLoaded
    /\ json_output' = NotLoaded
    /\ result' = Pending
    /\ UNCHANGED <<receipt_text, st_error, st_info, st_warning>>
    /\ UNCHANGED chatVars

\* an exception leaves process_receipt and main: nothing is assigned
Unhandled ==
    /\ pc = "raised"
    /\ st_error' = result.exc
    /\ pc' = "idle"
    /\ text_output' = <<>>
    /\ json_string' = <<>>
    /\ loaded' = NotLoaded
    /\ json_output' = NotLoaded
    /\ result' = Pending
    /\ UNCHANGED <<receipt_text, st_info, st_warning, parsed_data, replaced>>
    /\ UNCHANGED chatVars

\* what the right-hand column shows for the stored result
RightColumn ==
    IF parsed_data.kind = "obj" THEN "Extracted JSON"
    ELSE IF parsed_data.kind = "none" THEN "Extraction failed"
    ELSE "Click 'Extract Data' to begin processing."

HostReceipts == { <<>>, <<" ">>, <<"7">>, <<"TOTAL:", " ", "7">> }

HostOutputs == { <<"w">>, <<"{", "}">>, <<"{", "w", "}">>, <<"{", "}", "}">> }

HostPayloads ==
    { Dict(RawText, Str(<<"x">>), List(<<Milk>>)),
      Dict(RawText, Number(Dec(5, 0)), Absent),
      Dict(RawText, Absent, Null) }

\* a session of main: one click after the other
NextHost ==
    \/ \E r \in HostReceipts : ExtractData(r)
    \/ \E raw \in HostOutputs : Generate(raw)
    \/ ExtractAndLoad(HostPayloads)
    \/ Repair
    \/ Store
    \/ Unhandled

SpecHost == Init /\ [][NextHost]_vars

(***************************************************************************)
(* QAbot: the chat assistant.  A text is a sequence of tokens.             *)
(***************************************************************************)
\* s.strip()
StripSpaces(t) ==
    LET keep == {i \in 1..Len(t) : ~IsSpace(t[i])}
    IN  IF keep = {} THEN <<>> ELSE SubSeq(t, Min(keep), Max(keep))

Message(role, content) == [role |-> role, content |-> content]

\* "You are a helpful and concise assistant. ", and the context when there is one
SystemInstruction(context) ==
    <<"You are a helpful and concise assistant. ">>
        \o (IF context # <<>>
            THEN <<"Use the following CONTEXT to answer questions, but you can answer general questions too: [">>
                     \o StripSpaces(context) \o <<"] ">>
            ELSE <<>>)

\* tokenizer.apply_chat_template(chat_history, tokenize=False,
\* add_generation_prompt=True): each message as its role marker, its content
\* and </s>, then the marker that opens the assistant's turn
RECURSIVE RenderTurns(_)
RenderTurns(history) ==
    IF history = <<>> THEN <<>>
    ELSE (<<IF Head(history).role = "user" THEN "<|user|>" ELSE "<|assistant|>">>
              \o Head(history).content \o <<"</s>">>)
         \o RenderTurns(Tail(history))

ApplyChatTemplate(history) == RenderTurns(history) \o <<"<|assistant|>">>

\* raw_response.split("</s>")[0].split("[/INST]")[0].strip()
CleanResponse(raw) ==
    LET stops == {i \in 1..Len(raw) : raw[i] \in {"</s>", "[/INST]"}}
    IN  StripSpaces(IF stops = {} THEN raw ELSE SubSeq(raw, 1, Min(stops) - 1))

ChatContexts == { <<>>, <<" ">>, <<"ctx">>, <<" ", "ctx">> }

ChatPrompts == { <<"q1">>, <<"q2">> }

ChatGenerations == SeqsUpTo({"a", "</s>", " "}, 2)

\* the context text area is edited
EditContext(c) ==
    /\ chat_pc = "idle"
    /\ chat_context # c
    /\ chat_context' = c
    /\ UNCHANGED <<messages, system_instruction, full_llm_input, chat_pc>>
    /\ UNCHANGED receiptVars

\* a prompt is submitted: it is saved to the history, the system instruction
\* is built, and the history alone goes through the chat template
Submit(prompt) ==
    /\ chat_pc = "idle"
    /\ Len(messages) < MaxMessages
    /\ messages' = Append(messages, Message("user", prompt))
    /\ system_instruction' = SystemInstruction(chat_context)
    /\ full_llm_input' = ApplyChatTemplate(messages')
    /\ chat_pc' = "generating"
    /\ UNCHANGED chat_context
    /\ UNCHANGED receiptVars

\* llm_pipeline returns: the cleaned response is shown and saved
Respond(raw) ==
    /\ chat_pc = "generating"
    /\ messages' = Append(messages, Message("assistant", CleanResponse(raw)))
    /\ chat_pc' = "idle"
    /\ UNCHANGED <<chat_context, system_instruction, full_llm_input>>
    /\ UNCHANGED receiptVars

\* llm_pipeline raises: the error is shown, nothing is saved
GenerationFails ==
    /\ chat_pc = "generating"
    /\ chat_pc' = "idle"
    /\ UNCHANGED <<chat_context, messages, system_instruction, full_llm_input>>
    /\ UNCHANGED receiptVars

NextChat ==
    \/ \E c \in ChatContexts : EditContext(c)
    \/ \E prompt \in ChatPrompts : Submit(prompt)
    \/ \E raw \in ChatGenerations : Respond(raw)
    \/ GenerationFails

SpecChat == Init /\ [][NextChat]_vars

(***************************************************************************)
(* The claims about process_receipt and main.                              *)
(***************************************************************************)
\* the call has ended, by a return or by an exception
Ended == pc \in {"returned", "raised"}

\* json.loads returned an object in this call
DidLoad == loaded # NotLoaded

\* the brace search and json.loads are behind
AfterExtract == pc \in {"repair", "returned", "raised"}

NumChars == Digits \cup {"."}

\* the run of digits and dots that follows position i, whitespace skipped
RunsAfter(t, i) ==
    {se \in (i + 1 .. Len(t)) \X (i + 1 .. Len(t)) :
        /\ se[1] <= se[2]
        /\ \A k \in i + 1 .. se[1] - 1 : t[k] = " "
        /\ \A k \in se[1] .. se[2] : t[k] \in NumChars
        /\ (se[2] = Len(t) \/ t[se[2] + 1] \notin NumChars)}

\* the positions where "TOTAL:", in either case, is followed by such a run
AnchorMatches(t) == {i \in 1..Len(t) : t[i] \in {"TOTAL:", "total:"} /\ RunsAfter(t, i) # {}}

RunOf(t, i) == LET se == CHOOSE x \in RunsAfter(t, i) : TRUE IN SubSeq(t, se[1], se[2])

\* the numeric literal a run stands for: the run itself when float() accepts
\* it, or the run without its last character when that is a full stop set
\* directly after a literal with a decimal point ("21.82.")
LiteralOf(run) ==
    IF IsFloatLiteral(run) THEN run
    ELSE IF /\ Len(run) >= 2
            /\ run[Len(run)] = "."
            /\ IsFloatLiteral(SubSeq(run, 1, Len(run) - 1))
         THEN SubSeq(run, 1, Len(run) - 1)
         ELSE <<>>

\* the numbers n such that "TOTAL:" is followed by the numeric literal n
AnchoredNumbers(t) ==
    {FloatValue(LiteralOf(RunOf(t, i))) :
        i \in {j \in AnchorMatches(t) : LiteralOf(RunOf(t, j)) # <<>>}}

\* C1: process_receipt ends by returning an object or None, and never raises,
\* whatever the shape of the object in the model output.
C1_NeverRaises == pc # "raised"

\* C2: whenever process_receipt returns an object, that object has a 'total'
\* and it is a number.
C2_TotalIsNumber == result.kind = "obj" => result.value.total.kind = "num"

\* C3: Recovery Path A.  When the object has no numeric total and the receipt
\* text holds "TOTAL:" followed by a numeric literal n, process_receipt returns
\* total = n.
C3_TotalFromText ==
    (Ended /\ DidLoad /\ TotalIsMalformed(loaded) /\ AnchoredNumbers(receipt_text) # {})
        => /\ result.kind = "obj"
           /\ result.value.total.kind = "num"
           /\ result.value.total.n \in AnchoredNumbers(receipt_text)

\* the sum of quantity * price over the items whose two fields coerce
RECURSIVE SumOverCoercible(_)
SumOverCoercible(elems) ==
    IF elems = <<>> THEN Zero
    ELSE LET x  == Head(elems)
             q  == IF x.kind = "obj" THEN PyFloat(DictGet(x.fields, "quantity", Number(Zero)))
                   ELSE Raise("none")
             pr == IF x.kind = "obj" THEN PyFloat(DictGet(x.fields, "price", Number(Zero)))
                   ELSE Raise("none")
         IN  NumAdd(IF q.ok /\ pr.ok THEN NumMul(q.n, pr.n) ELSE Zero,
                    SumOverCoercible(Tail(elems)))

\* C4: Recovery Path B.  When the object has no numeric total and the receipt
\* text has no "TOTAL:", process_receipt returns total = round(sum of
\* quantity * price, 2) over the items whose two fields coerce; any other item
\* adds nothing and does not abort; absent items are the empty list.
C4_TotalFromItems ==
    ( /\ Ended /\ DidLoad /\ TotalIsMalformed(loaded)
      /\ \A i \in 1..Len(receipt_text) : receipt_text[i] \notin {"TOTAL:", "total:"}
      /\ loaded.items.kind \in {"absent", "list"} )
        => /\ result.kind = "obj"
           /\ result.value.total =
                  Number(Round2(SumOverCoercible(IF loaded.items.kind = "list"
                                                 THEN loaded.items.elems ELSE <<>>)))

HasOpen(t) == Positions(t, "{") # {}

HasClose(t) == Positions(t, "}") # {}

FirstToLast(t) == SubSeq(t, Min(Positions(t, "{")), Max(Positions(t, "}")))

NotFoundReported ==
    /\ st_error = ErrNoJson
    /\ result = ReturnNone
    /\ json_string = <<>>
    /\ ~DidLoad

\* C5 as stated: NotFound when the text has no "{" or no "}"; otherwise, with
\* at least one "{" and one "}", the block is the text from the first "{" to
\* the last "}".
C5_EnvelopeWheneverBothBraces ==
    AfterExtract =>
        IF ~HasOpen(text_output) \/ ~HasClose(text_output)
        THEN NotFoundReported
        ELSE st_error # ErrNoJson /\ json_string = FirstToLast(text_output)

\* some "{" of the text comes before some "}"
BraceBeforeClose(t) ==
    HasOpen(t) /\ HasClose(t) /\ Min(Positions(t, "{")) < Max(Positions(t, "}"))

\* C5 as amended: NotFound when no "{" of the text is followed by a "}";
\* otherwise the block is the text from the first "{" to the last "}".
C5_EnvelopeWhenBraceBeforeClose ==
    AfterExtract =>
        IF ~BraceBeforeClose(text_output)
        THEN NotFoundReported
        ELSE st_error # ErrNoJson /\ json_string = FirstToLast(text_output)

\* a block with a stray closing brace after the object was extracted
C5_Witness ==
    /\ AfterExtract
    /\ text_output = <<"{", "}", "}">>
    /\ json_string = <<"{", "}", "}">>

\* C6: a span that is not valid JSON makes process_receipt return None without
\* raising and without any repair step, and main stores that None, so that the
\* right-hand column shows "Extraction failed".
C6_InvalidJsonIsStoredFailure ==
    /\ (Ended /\ json_string # <<>> /\ ~DidLoad)
           => /\ pc = "returned"
              /\ result = ReturnNone
              /\ st_error = ErrDecode
              /\ ~st_warning /\ st_info = ""
              /\ json_output = NotLoaded
    /\ (pc = "idle" /\ st_error = ErrDecode)
           => /\ parsed_data = ReturnNone
              /\ RightColumn = "Extraction failed"

\* a failed decoding was stored over an object of an earlier click
C6_Witness ==
    /\ pc = "idle"
    /\ st_error = ErrDecode
    /\ replaced.kind = "obj"
    /\ parsed_data = ReturnNone

\* C7: with a malformed total, the items are used only when the receipt text
\* has no match of "TOTAL:" (either case) and a run of digits and dots; with a
\* match the total is the float of the first match's run, or 0.0 when that run
\* is no float, whatever the items are.
C7_TextBeforeItems ==
    (pc = "returned" /\ DidLoad /\ TotalIsMalformed(loaded))
        => IF AnchorMatches(receipt_text) = {}
           THEN st_info = "calculated"
           ELSE /\ st_info # "calculated"
                /\ LET run == RunOf(receipt_text, Min(AnchorMatches(receipt_text)))
                   IN  result.value.total =
                           Number(IF IsFloatLiteral(run) THEN FloatValue(run) ELSE Zero)

\* the lower-case anchor matched a run that is no float, and the total is 0.0
\* although the items add up to 10.50
C7_Witness ==
    /\ pc = "returned" /\ DidLoad /\ TotalIsMalformed(loaded)
    /\ receipt_text = <<"total:", "2", ".", "5", ".">>
    /\ loaded.items = List(<<Milk, Bread>>)
    /\ result.value.total = Number(Zero)

\* the receipt texts a repaired object is repaired against once more
RerunTexts == {Flatten(ws) : ws \in SeqsUpTo(Words, 2)}

\* C8: a total that is already a number is returned as it is, whatever the
\* receipt text and the items say; and repairing a returned object once more,
\* against any receipt text, leaves its numeric total as it is.
C8_NumericTotalKept ==
    (pc = "returned" /\ DidLoad)
        => /\ loaded.total.kind = "num" => result.value.total = loaded.total
           /\ result.value.total.kind = "num" =>
                  \A t \in RerunTexts \cup {receipt_text} :
                      LET again == RepairTotal(result.value, t)
                      IN  again.ok /\ FinalCleanup(again.json).total = result.value.total

\* a numeric total was returned unchanged although the text says "TOTAL: 7"
\* and the items add up to 10.50
C8_Witness ==
    /\ pc = "returned" /\ DidLoad
    /\ loaded.total = Number(Dec(5, 0))
    /\ receipt_text = <<"TOTAL:", " ", "7">>
    /\ loaded.items = List(<<Milk, Bread>>)
    /\ result.value.total = Number(Dec(5, 0))

\* C9: the repair changes at most 'total': the returned object has the items
\* (the same elements in the same order, the ones left out of the sum too) and
\* the other fields that json.loads built.
C9_OnlyTotalChanges ==
    result.kind = "obj"
        => /\ result.value.items = loaded.items
           /\ result.value.raw_text = loaded.raw_text
           /\ json_output = result.value

\* the total was calculated from the items, and an item that was left out of
\* the sum is still in the returned list
C9_Witness ==
    /\ result.kind = "obj"
    /\ st_info = "calculated"
    /\ loaded.items = List(<<Item(Str(<<"x">>), Number(Dec(525, 2))), Milk>>)
    /\ result.value.items = loaded.items
    /\ result.value.total = Number(Dec(450, 2))

\* t holds the tokens of part, one after the other
Contains(t, part) ==
    \E i \in 0..(Len(t) - Len(part)) : SubSeq(t, i + 1, i + Len(part)) = part

\* C10: on every submission the input sent to the pipeline holds the context,
\* when there is one, and the whole history in order, ending with the message
\* just submitted; without a context it holds the history alone.
C10_ContextIsSent ==
    chat_pc = "generating"
        => /\ messages # <<>> /\ messages[Len(messages)].role = "user"
           /\ Contains(full_llm_input, RenderTurns(messages))
           /\ StripSpaces(chat_context) # <<>>
                  => Contains(full_llm_input, StripSpaces(chat_context))
           /\ chat_context = <<>> => full_llm_input = ApplyChatTemplate(messages)

=============================================================================
